---- MODULE Spec2Model ----
(***************************************************************************)
(* Tide prediction service for the Hon Dau station (src/main.py).          *)
(*                                                                         *)
(* Units of the model.  Instants are whole minutes since INITIAL_TIME      *)
(* (2000-01-01 00:00 UTC).  Angles are millidegrees.  Amplitudes and       *)
(* levels that left the core are hundredths of a centimetre, so the        *)
(* rounding to 2 decimals of the code is a real operation of the model.    *)
(* The unrounded superposition eta is carried in 1e-6 cm.                   *)
(***************************************************************************)
EXTENDS Integers, Sequences, FiniteSets

VARIABLES
    tide_model,     \* uptide.Tides object: constituent names, speeds, initial time
    amplitudes,     \* np.array(CONS_H)
    phases,         \* np.radians(np.array(CONS_G))
    A0,             \* mean level, cm
    INITIAL_TIME,   \* reference epoch (minutes; 0 is 2000-01-01 00:00 UTC)
    now_utc,        \* the clock reading of the request being served
    response,       \* what the last request returned
    levels,         \* get_daily_extremes: the rounded level series
    distance,       \* find_peaks' distance argument
    high_peaks,     \* find_peaks(levels, distance)
    low_peaks,      \* find_peaks(-levels, distance)
    predicted,      \* validate_model: predicted series
    actual_data,    \* validate_model: observed series
    statistics      \* validate_model: the statistics block

vars == <<tide_model, amplitudes, phases, A0, INITIAL_TIME, now_utc, response,
          levels, distance, high_peaks, low_peaks, predicted, actual_data,
          statistics>>

model_vars == <<tide_model, amplitudes, phases, A0, INITIAL_TIME>>
peak_vars == <<levels, distance, high_peaks, low_peaks>>
stat_vars == <<predicted, actual_data, statistics>>

-----------------------------------------------------------------------------
(* Small helpers over arrays.  Arrays are sequences; the code's 0-based     *)
(* index i is position i + 1.                                               *)

At(x, i) == x[i + 1]

Range(s) == {s[i] : i \in DOMAIN s}

Abs(v) == IF v < 0 THEN -v ELSE v

Neg(x) == [i \in DOMAIN x |-> -x[i]]

RECURSIVE SumSeq(_)
SumSeq(s) == IF s = <<>> THEN 0 ELSE Head(s) + SumSeq(Tail(s))

MaxSeq(s) == CHOOSE m \in Range(s) : \A v \in Range(s) : v <= m

MinSeq(s) == CHOOSE m \in Range(s) : \A v \in Range(s) : m <= v

\* np.array(...): the same elements, held as an evaluated array
np_array(s) == s \o <<>>

Reverse(s) == [i \in 1..Len(s) |-> s[Len(s) + 1 - i]]

-----------------------------------------------------------------------------
(* Module-level constants of src/main.py.                                   *)

\* hours east of UTC of VN_TIMEZONE as the code constructs it
VN_TIMEZONE == 0

CONS_NAMES == <<"M2", "S2", "K1", "O1", "M4", "MS4", "M6", "N2", "K2", "P1",
                "Q1", "Sa", "Ssa">>

\* amplitudes, hundredths of a cm
CONS_H == <<573, 529, 8900, 10906, 136, 120, 22, 60, 290, 2567, 2014, 803, 235>>

\* phases, hundredths of a degree
CONS_G == <<4724, 10585, 7971, 4155, 21036, 28671, 18083, 5148, 6038, 8407,
            36501, 19626, 9756>>

A0_CM == 214

\* uptide's table of constituent speeds, millidegrees per minute (the
\* standard speeds in degrees per hour, times 1000/60, to the nearest unit)
tidal_omega == [c \in Range(CONS_NAMES) |->
    CASE c = "M2" -> 483 [] c = "S2" -> 500 [] c = "K1" -> 251
      [] c = "O1" -> 232 [] c = "M4" -> 966 [] c = "MS4" -> 983
      [] c = "M6" -> 1449 [] c = "N2" -> 474 [] c = "K2" -> 501
      [] c = "P1" -> 249 [] c = "Q1" -> 223 [] c = "Sa" -> 1
      [] c = "Ssa" -> 1]

\* uptide.Tides(names) followed by set_initial_time(t0)
Tides(names, t0) == [constituents |-> names,
                     omega |-> [i \in DOMAIN names |-> tidal_omega[names[i]]],
                     initial_time |-> t0]

\* np.radians: degrees (hundredths) to the angle unit of the model
Radians(g) == [i \in DOMAIN g |-> g[i] * 10]

-----------------------------------------------------------------------------
(* The harmonic synthesizer: tide_model.from_amplitude_phase.               *)

FullTurn == 360 * 1000
QuarterTurn == 90 * 1000

\* long division: `digits` more decimal digits of q + r/d
RECURSIVE Digits(_, _, _, _)
Digits(q, r, d, digits) ==
    IF digits = 0 THEN q
    ELSE Digits(q * 10 + (r * 10) \div d, (r * 10) % d, d, digits - 1)

\* cos on the first quadrant, scaled by 1e5, a in 0..QuarterTurn.  Bhaskara's
\* rational form (32400 - 4 d^2) / (32400 + d^2), d in degrees, which is
\* within 0.002 of the cosine, even, and strictly decreasing on the quadrant.
CosQ(a) ==
    LET h  == a \div 100
        l  == a % 100
        sq == 100 * h * h + 2 * h * l + (l * l) \div 100
        n  == 81000000 - sq
        d  == 81000000 + sq \div 4
    IN  Digits(n \div d, n % d, d, 5)

\* CosQ, tabulated once: entry a + 1 holds CosQ(a)
CosTable == np_array([k \in 1..(QuarterTurn + 1) |-> CosQ(k - 1)])

\* np.cos, scaled by 1e5, of an angle in millidegrees
Cos(angle) ==
    LET a == angle % FullTurn IN
    IF a <= QuarterTurn THEN CosTable[a + 1]
    ELSE IF a <= 2 * QuarterTurn THEN -CosTable[2 * QuarterTurn - a + 1]
    ELSE IF a <= 3 * QuarterTurn THEN -CosTable[a - 2 * QuarterTurn + 1]
    ELSE CosTable[FullTurn - a + 1]

\* one instant: sum_i amplitude_i * cos(omega_i * t - phase_i), in 1e-6 cm
EtaAt(tm, amps, phs, t) ==
    SumSeq([i \in DOMAIN amps |->
        (amps[i] * Cos(tm.omega[i] * (t % FullTurn) - phs[i])) \div 10])

\* from_amplitude_phase on an array of elapsed times: one value per instant
from_amplitude_phase(tm, amps, phs, times) ==
    [k \in DOMAIN times |-> EtaAt(tm, amps, phs, times[k])]

\* (target - INITIAL_TIME).total_seconds(), in the model's minutes
total_seconds(t, t0) == t - t0

\* round(v, 2) / ndarray.round(2): v in 1e-6 cm to hundredths of a cm,
\* to nearest, ties to even.  -0.004 rounds to -0.0, which is the number 0.
Round2(v) ==
    LET q == v \div 10000
        r == v % 10000
    IN  IF r > 5000 \/ (r = 5000 /\ q % 2 = 1) THEN q + 1 ELSE q

\* a slip that clips the levels at zero
RoundLevelsClipped(a0, eta) ==
    [k \in DOMAIN eta |->
        IF Round2(a0 * 1000000 + eta[k]) < 0 THEN 0
        ELSE Round2(a0 * 1000000 + eta[k])]

\* (A0 + eta_values).round(2)
RoundLevels(a0, eta) == [k \in DOMAIN eta |-> Round2(a0 * 1000000 + eta[k])]

-----------------------------------------------------------------------------
(* scipy.signal.find_peaks(x, distance=d), as get_daily_extremes calls it.  *)

\* _local_maxima_1d, inner loop: from i + 1, i_ahead advances while it is
\* below i_max and x[i_ahead] equals x[i]; this is where it stops
PlateauEnd(x, i) ==
    LET i_max == Len(x) - 1 IN
    CHOOSE i_ahead \in (i + 1)..i_max :
        /\ i_ahead = i_max \/ At(x, i_ahead) # At(x, i)
        /\ \A k \in (i + 1)..(i_ahead - 1) : At(x, k) = At(x, i)

\* _local_maxima_1d, outer loop: index i opens a peak when the sample before
\* it is lower and the sample after its flat run is lower.  (After a peak the
\* loop resumes behind the run; no index it skips could open a peak.)
PeakStarts(x) ==
    {i \in 1..(Len(x) - 2) :
        /\ At(x, i - 1) < At(x, i)
        /\ At(x, PlateauEnd(x, i)) < At(x, i)}

\* the elements of a set of numbers in ascending order
Ascending(S) ==
    [k \in 1..Cardinality(S) |->
        CHOOSE v \in S : Cardinality({w \in S : w < v}) = k - 1]

\* a slip that reports a flat run at its right edge instead of its midpoint
local_maxima_right_edge(x) ==
    Ascending({PlateauEnd(x, i) - 1 : i \in PeakStarts(x)})

\* _local_maxima_1d: midpoints[m] = (left_edges[m] + right_edges[m]) // 2
local_maxima_1d(x) ==
    Ascending({(i + (PlateauEnd(x, i) - 1)) \div 2 : i \in PeakStarts(x)})

\* np.argsort(priority): every order of the positions that sorts priority
\* ascending.  The default sort is not stable, so equal priorities may come
\* out in either order.
ArgSorts(priority) ==
    LET m == Len(priority) IN
    {p \in [1..m -> 1..m] :
        /\ \A i, j \in 1..m : i < j => p[i] # p[j]
        /\ \A i \in 1..(m - 1) : priority[p[i]] <= priority[p[i + 1]]}

\* the loop of _select_by_peak_distance from position i of the order down:
\* a peak still kept removes every neighbour closer than distance_
RECURSIVE SelectFrom(_, _, _, _, _)
SelectFrom(peaks, order, distance_, i, keep) ==
    IF i < 1 THEN keep
    ELSE LET j == order[i] IN
         IF ~keep[j] THEN SelectFrom(peaks, order, distance_, i - 1, keep)
         ELSE SelectFrom(peaks, order, distance_, i - 1,
                [k \in DOMAIN keep |->
                    IF k # j /\ Abs(peaks[j] - peaks[k]) < distance_
                    THEN FALSE ELSE keep[k]])

\* slips of the selection: an off-by-one window, and scan order for priority
select_by_peak_distance_short(peaks, order, distance_) ==
    SelectFrom(peaks, order, distance_ - 1, Len(peaks), [k \in DOMAIN peaks |-> TRUE])

select_by_peak_distance_scan(peaks, order, distance_) ==
    SelectFrom(peaks, [k \in DOMAIN peaks |-> k], distance_, Len(peaks),
               [k \in DOMAIN peaks |-> TRUE])

\* _select_by_peak_distance(peaks, priority, distance), order = argsort(priority)
select_by_peak_distance(peaks, order, distance_) ==
    SelectFrom(peaks, order, distance_, Len(peaks), [k \in DOMAIN peaks |-> TRUE])

\* peaks[keep]
Masked(peaks, keep) == SelectSeq(peaks, LAMBDA p : \E k \in DOMAIN peaks : peaks[k] = p /\ keep[k])

\* the results find_peaks(x, distance=d) can return
find_peaks(x, d) ==
    LET peaks == local_maxima_1d(x)
        priority == [k \in DOMAIN peaks |-> At(x, peaks[k])]
    IN  {Masked(peaks, select_by_peak_distance(peaks, order, d)) :
            order \in ArgSorts(priority)}

-----------------------------------------------------------------------------
(* Start-up: the state after the module has been loaded.                    *)

NoResponse == [endpoint |-> "none", status |-> 0, days |-> 0,
               time_range |-> <<>>, values |-> <<>>, labels |-> <<>>]

ModelInit ==
    /\ INITIAL_TIME = 0
    /\ tide_model = Tides(CONS_NAMES, 0)
    /\ amplitudes = CONS_H
    /\ phases = Radians(CONS_G)
    /\ A0 = A0_CM

-----------------------------------------------------------------------------
(* Time helpers.                                                            *)

MinutesPerHour == 60
MinutesPerDay == 1440

\* t.astimezone(VN_TIMEZONE): the local wall-clock reading of instant t
astimezone(t, tz_hours) == t + tz_hours * MinutesPerHour

\* datetime(y, m, d, tzinfo=tz).astimezone(timezone.utc): the instant of a
\* wall-clock reading in zone tz
from_local(wall, tz_hours) == wall - tz_hours * MinutesPerHour

\* datetime(now.year, now.month, now.day, tzinfo=utc): midnight UTC of now
start_of_day(t) == (t \div MinutesPerDay) * MinutesPerDay

\* .date() of a wall-clock reading: the day number
date(wall) == wall \div MinutesPerDay

\* pd.date_range(start=start, periods=periods, freq=step): no instants when
\* periods is 0
date_range(start, periods, step) ==
    np_array([i \in 1..periods |-> start + step * (i - 1)])

elapsed(times, t0) == [k \in DOMAIN times |-> total_seconds(times[k], t0)]

-----------------------------------------------------------------------------
(* calculate_tide_uptide and the request handlers.                          *)

calculate_tide_uptide(tm, amps, phs, a0, t0, target_datetime_utc) ==
    LET time_since_initial == total_seconds(target_datetime_utc, t0)
        eta == from_amplitude_phase(tm, amps, phs, <<time_since_initial>>)
        eta1 == IF Len(eta) = 1 THEN eta[1] ELSE eta
    IN  Round2(a0 * 1000000 + eta1)

\* the whole level computation of a handler: elapsed times, one batched
\* synthesis, A0 added, rounded to 2 decimals
series_levels(tm, amps, phs, a0, t0, time_range) ==
    LET times_since_initial == elapsed(time_range, t0)
        eta_values == from_amplitude_phase(tm, amps, phs, times_since_initial)
    IN  np_array(RoundLevels(a0, eta_values))

\* the locals of a handler are gone when the next handler runs
NoPeakLocals ==
    /\ levels' = <<>>
    /\ distance' = distance
    /\ high_peaks' = <<>>
    /\ low_peaks' = <<>>

NoValidateLocals ==
    /\ predicted' = <<>>
    /\ actual_data' = <<>>
    /\ statistics' = <<>>

\* a handler that recalibrates the mean level in place
ModelRecalibrated ==
    /\ A0' = 186
    /\ UNCHANGED <<tide_model, amplitudes, phases, INITIAL_TIME>>

\* no handler assigns a module-level name or writes into the arrays
ModelUntouched == UNCHANGED model_vars

\* the instants the clock shows; 2026-02-01 00:00 UTC is 13720320
START_UP == 9528 * MinutesPerDay
Instants == {13720935, 13723207, 13800000, 14042521, 14042530, 14079773,
             14084201, 14200000}

\* datetime.now(timezone.utc): the clock never runs backwards; between two
\* requests it stands still or moves on to the next instant
ClockReadings ==
    {t \in Instants :
        /\ t >= now_utc
        /\ \A u \in Instants : ~(now_utc < u /\ u < t)}

\* what read_root advertises: "/tide/forecast?days=N ... max 365" and
\* "/tide/chart?days=N ... max 10"
ADVERTISED_FORECAST_MAX == 365
ADVERTISED_CHART_MAX == 10

\* read_root: a fixed description of the service; it reads no clock
ReadRoot ==
    /\ response' = [endpoint |-> "root", status |-> 200, days |-> 0,
                    time_range |-> <<>>, values |-> <<>>, labels |-> <<>>,
                    forecast_max_days |-> ADVERTISED_FORECAST_MAX,
                    chart_max_days |-> ADVERTISED_CHART_MAX]
    /\ NoPeakLocals
    /\ NoValidateLocals
    /\ ModelUntouched
    /\ UNCHANGED now_utc

\* the "timezone" entry of get_current_tide, "GMT+7", as hours east of UTC
TIMEZONE_LABEL == 7

GetCurrentTide ==
    \E now \in ClockReadings :
        LET now_vn == astimezone(now, VN_TIMEZONE)
            level == calculate_tide_uptide(tide_model, amplitudes, phases, A0,
                                           INITIAL_TIME, now)
        IN  /\ now_utc' = now
            /\ response' = [endpoint |-> "current", status |-> 200, days |-> 0,
                            time_range |-> <<now>>, values |-> <<level>>,
                            labels |-> <<now_vn>>,
                            timezone |-> TIMEZONE_LABEL]
            /\ NoPeakLocals
            /\ NoValidateLocals
            /\ ModelUntouched

DAILY_PERIODS == 288
DAILY_FREQ == 5

\* a slip that gives the five hours in minutes instead of samples
peak_distance_minutes == 5 * MinutesPerHour

\* distance=60: five hours of 5-minute samples
PEAK_DISTANCE == 60

\* one entry of high_tides / low_tides
TideEvents(time_range, lv, peaks) ==
    [k \in DOMAIN peaks |->
        [time_local |-> astimezone(At(time_range, peaks[k]), VN_TIMEZONE),
         level_cm |-> At(lv, peaks[k])]]

GetDailyExtremes ==
    \E now \in ClockReadings :
      \E time_range \in {date_range(start_of_day(now), DAILY_PERIODS, DAILY_FREQ)} :
        \E lv \in {series_levels(tide_model, amplitudes, phases, A0,
                                 INITIAL_TIME, time_range)} :
          \E neg \in {np_array(Neg(lv))} :
            \E hp \in find_peaks(lv, PEAK_DISTANCE),
               lp \in find_peaks(neg, PEAK_DISTANCE) :
                /\ now_utc' = now
                /\ levels' = lv
                /\ distance' = PEAK_DISTANCE
                /\ high_peaks' = hp
                /\ low_peaks' = lp
                /\ response' = [endpoint |-> "daily-extremes", status |-> 200,
                                days |-> 0,
                                time_range |-> time_range, values |-> lv,
                                labels |-> <<date(astimezone(start_of_day(now), VN_TIMEZONE))>>,
                                high_tides |-> TideEvents(time_range, lv, hp),
                                low_tides |-> TideEvents(time_range, lv, lp)]
                /\ NoValidateLocals
                /\ ModelUntouched

FORECAST_MAX_DAYS == 30
HOURS_PER_DAY == 24

\* the values of the days query parameter the model sends
MaxDays == 2
ForecastDays == ((-1)..MaxDays) \cup {FORECAST_MAX_DAYS + 1}

\* pd.date_range with a negative periods: rejected by the pandas versions
\* that convert periods to an unsigned count, an empty range in the others
NegativePeriodsOutcomes == {"raises", "empty"}

\* days > 30 is cut to 30
forecast_days(days_param) ==
    IF days_param > FORECAST_MAX_DAYS THEN FORECAST_MAX_DAYS ELSE days_param

\* periods >= 0: the range is generated, with no instants when periods is 0,
\* and the handler returns what it built from it
ForecastServed ==
    \E now \in ClockReadings,
       days_param \in {d \in ForecastDays : forecast_days(d) * HOURS_PER_DAY >= 0} :
      \E time_range \in {date_range(now, forecast_days(days_param) * HOURS_PER_DAY,
                                    MinutesPerHour)} :
        \E lv \in {series_levels(tide_model, amplitudes, phases, A0,
                                 INITIAL_TIME, time_range)} :
            /\ now_utc' = now
            /\ response' =
                  [endpoint |-> "forecast", status |-> 200,
                   days |-> days_param, time_range |-> time_range,
                   values |-> lv,
                   labels |-> [k \in DOMAIN time_range |->
                                 astimezone(time_range[k], VN_TIMEZONE)],
                   forecast_period |-> forecast_days(days_param)]
            /\ NoPeakLocals
            /\ NoValidateLocals
            /\ ModelUntouched

\* periods < 0: date_range raises (an unhandled error, status 500) or yields
\* no instants, as the installed pandas has it
ForecastNegativePeriods ==
    \E now \in ClockReadings,
       days_param \in {d \in ForecastDays : forecast_days(d) * HOURS_PER_DAY < 0},
       outcome \in NegativePeriodsOutcomes :
        /\ now_utc' = now
        /\ response' =
              IF outcome = "raises"
              THEN [endpoint |-> "forecast", status |-> 500,
                    days |-> days_param, time_range |-> <<>>,
                    values |-> <<>>, labels |-> <<>>]
              ELSE [endpoint |-> "forecast", status |-> 200,
                    days |-> days_param, time_range |-> <<>>,
                    values |-> <<>>, labels |-> <<>>,
                    forecast_period |-> forecast_days(days_param)]
        /\ NoPeakLocals
        /\ NoValidateLocals
        /\ ModelUntouched

GetForecast == ForecastServed \/ ForecastNegativePeriods

-----------------------------------------------------------------------------
(* validate_model.                                                          *)

\* the observations of 2026-02-01, cm
ACTUAL_DATA == <<302, 343, 374, 392, 395, 385, 360, 325, 284, 238,
                 190, 142, 97, 60, 30, 9, -4, 0, 4, 25,
                 57, 100, 150, 202>>

\* datetime(2026, 2, 1, 0, 0, 0) as a wall-clock reading: 9528 days after
\* 2000-01-01
TEST_DATE == 9528 * 1440

\* predicted - np.array(actual_data): hundredths of a cm, signed
Errors(pred, actual) == [i \in DOMAIN pred |-> pred[i] - actual[i] * 100]

\* floor of the mean of the squares of e; each square is divided before the
\* sum so that no intermediate exceeds the largest square
MeanSquare(e) ==
    LET n == Len(e) IN
    SumSeq([i \in DOMAIN e |-> (e[i] * e[i]) \div n])
      + SumSeq([i \in DOMAIN e |-> (e[i] * e[i]) % n]) \div n

\* floor of the square root of m, known to lie in lo..hi
RECURSIVE SqrtIn(_, _, _)
SqrtIn(m, lo, hi) ==
    IF lo >= hi THEN lo
    ELSE LET mid == (lo + hi + 1) \div 2 IN
         IF mid * mid <= m THEN SqrtIn(m, mid, hi) ELSE SqrtIn(m, lo, mid - 1)

AbsSeq(e) == [i \in DOMAIN e |-> Abs(e[i])]

\* np.mean(errors), hundredths of a cm (floor)
mean_error(e) == SumSeq(e) \div Len(e)

\* a slip that averages the signed errors again
mean_absolute_error_signed(e) == SumSeq(e) \div Len(e)

\* np.mean(np.abs(errors))
mean_absolute_error(e) == SumSeq(AbsSeq(e)) \div Len(e)

\* np.sqrt(np.mean(errors**2))
root_mean_square_error(e) == SqrtIn(MeanSquare(e), 0, MaxSeq(AbsSeq(e)))

\* np.max(np.abs(errors))
max_absolute_error(e) == MaxSeq(AbsSeq(e))

Statistics(errors) ==
    [mean_error_cm |-> mean_error(errors),
     mae_cm |-> mean_absolute_error(errors),
     rmse_cm |-> root_mean_square_error(errors),
     max_error_cm |-> max_absolute_error(errors)]

ValidateModel ==
    \E hours_utc \in {np_array([i \in 1..HOURS_PER_DAY |->
                        from_local(TEST_DATE, VN_TIMEZONE) + MinutesPerHour * (i - 1)])} :
      \E pred \in {series_levels(tide_model, amplitudes, phases, A0,
                                 INITIAL_TIME, hours_utc)} :
        \E errors \in {np_array(Errors(pred, ACTUAL_DATA))} :
            /\ actual_data' = ACTUAL_DATA
            /\ predicted' = pred
            /\ statistics' = Statistics(errors)
            /\ response' = [endpoint |-> "validate", status |-> 200, days |-> 0,
                            time_range |-> hours_utc, values |-> pred,
                            labels |-> [i \in 1..HOURS_PER_DAY |-> (i - 1) * MinutesPerHour],
                            comparison |-> [i \in 1..HOURS_PER_DAY |->
                                [actual_cm |-> ACTUAL_DATA[i],
                                 predicted_cm |-> pred[i],
                                 error_cm |-> errors[i]]]]
            /\ NoPeakLocals
            /\ ModelUntouched
            /\ UNCHANGED now_utc

-----------------------------------------------------------------------------
(* get_tide_chart.                                                          *)

CHART_MAX_DAYS == 365
ChartDays == ((-MaxDays)..MaxDays) \cup {-21, -11}

\* a slip that leaves the backward window newest first
backward_range_unreversed(now, interval_minutes, num_points) ==
    np_array([i \in 1..num_points |-> now - interval_minutes * (i - 1)])

\* the backward window: now - i * interval for i in range(num_points),
\* then reversed
backward_range(now, interval_minutes, num_points) ==
    np_array(Reverse([i \in 1..num_points |-> now - interval_minutes * (i - 1)]))

forward_range(now, interval_minutes, num_points) ==
    np_array([i \in 1..num_points |-> now + interval_minutes * (i - 1)])

\* a slip that tests the window against the wrong ends
interval_for_strict(abs_days) ==
    IF abs_days < 10 THEN 15
    ELSE IF abs_days < 20 THEN 30
    ELSE 60

\* abs(days), raised to 1 and cut to 365
chart_abs_days(days) ==
    LET abs_days0 == Abs(days)
        abs_days1 == IF abs_days0 < 1 THEN 1 ELSE abs_days0
    IN  IF abs_days1 > CHART_MAX_DAYS THEN CHART_MAX_DAYS ELSE abs_days1

\* int(24 * 60 / interval_minutes)
points_per_day_for(interval_minutes) ==
    (HOURS_PER_DAY * MinutesPerHour) \div interval_minutes

interval_for(abs_days) ==
    IF abs_days <= 10 THEN 15
    ELSE IF abs_days <= 20 THEN 30
    ELSE 60

GetTideChart ==
    \E now \in ClockReadings, days \in ChartDays :
        LET abs_days == chart_abs_days(days)
            is_past == days < 0
            interval_minutes == interval_for(abs_days)
            points_per_day == points_per_day_for(interval_minutes)
            num_points == abs_days * points_per_day
        IN  \E time_range \in {IF is_past
                               THEN backward_range(now, interval_minutes, num_points)
                               ELSE forward_range(now, interval_minutes, num_points)} :
              \E lv \in {series_levels(tide_model, amplitudes, phases, A0,
                                       INITIAL_TIME, time_range)} :
                /\ now_utc' = now
                /\ response' = [endpoint |-> "chart", status |-> 200, days |-> days,
                                time_range |-> time_range, values |-> lv,
                                labels |-> [k \in DOMAIN time_range |->
                                              astimezone(time_range[k], VN_TIMEZONE)],
                                abs_days |-> abs_days, is_past |-> is_past,
                                interval_minutes |-> interval_minutes,
                                num_points |-> num_points,
                                max_value |-> MaxSeq(lv), min_value |-> MinSeq(lv)]
                /\ NoPeakLocals
                /\ NoValidateLocals
                /\ ModelUntouched

-----------------------------------------------------------------------------
(* The service: start-up, then requests in any order.                       *)

Init ==
    /\ ModelInit
    /\ now_utc = START_UP
    /\ response = NoResponse
    /\ levels = <<>>
    /\ distance = PEAK_DISTANCE
    /\ high_peaks = <<>>
    /\ low_peaks = <<>>
    /\ predicted = <<>>
    /\ actual_data = <<>>
    /\ statistics = <<>>

Next ==
    \/ ReadRoot
    \/ GetCurrentTide
    \/ GetDailyExtremes
    \/ GetForecast
    \/ ValidateModel
    \/ GetTideChart

Spec == Init /\ [][Next]_vars

-----------------------------------------------------------------------------
(* The extrema detector on its own: lines 126 and 128 applied to any level  *)
(* series and any minimum separation.                                       *)

MaxLen == 7
MaxLevel == 3
MaxDistance == 3

LevelSeries == UNION {[1..n -> 0..MaxLevel] : n \in 0..MaxLen}

InitPeaks ==
    /\ ModelInit
    /\ now_utc = 0
    /\ response = NoResponse
    /\ levels \in LevelSeries
    /\ distance \in 1..MaxDistance
    /\ high_peaks = <<>>
    /\ low_peaks = <<>>
    /\ predicted = <<>>
    /\ actual_data = <<>>
    /\ statistics = <<>>

FindExtrema ==
    /\ response.endpoint = "none"
    /\ high_peaks' \in find_peaks(levels, distance)
    /\ low_peaks' \in find_peaks(Neg(levels), distance)
    /\ response' = [NoResponse EXCEPT !.endpoint = "find_extrema"]
    /\ UNCHANGED <<model_vars, now_utc, levels, distance, stat_vars>>

NextPeaks == FindExtrema

SpecPeaks == InitPeaks /\ [][NextPeaks]_vars

-----------------------------------------------------------------------------
(* Properties of the extrema detector.                                      *)

Detected == response.endpoint \in {"find_extrema", "daily-extremes"}

LastIndex(x) == Len(x) - 1

\* flat runs l..r (0-based, inclusive) of x that are higher than the sample
\* on each side; a run of one sample is a strict local maximum
HighRuns(x) ==
    {lr \in (1..(LastIndex(x) - 1)) \X (1..(LastIndex(x) - 1)) :
        /\ lr[1] <= lr[2]
        /\ \A i \in lr[1]..lr[2] : At(x, i) = At(x, lr[1])
        /\ At(x, lr[1] - 1) < At(x, lr[1])
        /\ At(x, lr[2] + 1) < At(x, lr[2])}

StrictMaxima(x) == {lr[1] : lr \in {r \in HighRuns(x) : r[1] = r[2]}}

Plateaus(x) == {lr \in HighRuns(x) : lr[1] < lr[2]}

Mid(lr) == (lr[1] + lr[2]) \div 2

SeparatedBy(peaks, d) ==
    \A p, q \in Range(peaks) : p # q => Abs(p - q) >= d

Interior(peaks, x) ==
    \A p \in Range(peaks) : 0 < p /\ p < LastIndex(x)

\* C1: any two reported HIGH events are at least `distance` indices apart,
\* likewise any two reported LOW events, and no HIGH or LOW event sits at
\* index 0 or at the last index of the series.
C1_MinimumSeparation ==
    Detected =>
        /\ SeparatedBy(high_peaks, distance)
        /\ SeparatedBy(low_peaks, distance)
        /\ Interior(high_peaks, levels)
        /\ Interior(low_peaks, levels)

\* two HIGH events were reported and a third candidate between them was dropped
C1_Witness ==
    /\ response.endpoint = "find_extrema"
    /\ distance >= 2
    /\ Len(high_peaks) >= 2
    /\ \E c \in StrictMaxima(levels) : c \notin Range(high_peaks)

\* of two candidates of x closer than d, the smaller is never reported while
\* the larger is dropped
SmallerNeverDisplaces(x, reported, d) ==
    \A a, b \in StrictMaxima(x) :
        (Abs(a - b) < d /\ At(x, a) < At(x, b)) =>
            ~(a \in Range(reported) /\ b \notin Range(reported))

\* C6 as stated: whenever two HIGH candidates lie fewer than `distance`
\* indices apart, the smaller one is never reported while the larger one is
\* dropped; symmetrically for LOW candidates.
C6_AsStated ==
    Detected =>
        /\ SmallerNeverDisplaces(levels, high_peaks, distance)
        /\ SmallerNeverDisplaces(Neg(levels), low_peaks, distance)

\* of two candidates closer than d the two are never both reported, and the
\* larger is dropped only if a reported candidate at least as large lies
\* closer than d to it
SuppressedByMagnitude(x, reported, d) ==
    \A a, b \in StrictMaxima(x) :
        (Abs(a - b) < d /\ At(x, a) < At(x, b)) =>
            /\ ~(a \in Range(reported) /\ b \in Range(reported))
            /\ b \notin Range(reported) =>
                 \E c \in Range(reported) :
                    c # a /\ Abs(c - b) < d /\ At(x, c) >= At(x, b)

\* C6 amended: two HIGH candidates closer than `distance` are never both
\* reported, and the larger of them is dropped only when a reported HIGH at
\* least as high lies closer than `distance` to it (the smaller one may then
\* still be reported); symmetrically for LOW candidates.
C6_SuppressionByMagnitude ==
    Detected =>
        /\ SuppressedByMagnitude(levels, high_peaks, distance)
        /\ SuppressedByMagnitude(Neg(levels), low_peaks, distance)

\* a chain: the smaller of two close candidates is reported because the
\* larger was suppressed by a third
C6_Witness ==
    /\ response.endpoint = "find_extrema"
    /\ \E a, b \in StrictMaxima(levels) :
          /\ Abs(a - b) < distance
          /\ At(levels, a) < At(levels, b)
          /\ a \in Range(high_peaks)
          /\ b \notin Range(high_peaks)

\* every flat run of two or more samples yields exactly one event, at the
\* first index of the run
PlateauAtFirstIndex(x, reported) ==
    \A lr \in Plateaus(x) :
        {p \in Range(reported) : lr[1] <= p /\ p <= lr[2]} = {lr[1]}

\* C7 as stated: a flat run that is higher than the samples on both sides
\* yields exactly one HIGH event, located at the first index of the run;
\* mirrored for LOW events on a flat trough.
C7_AsStated ==
    Detected =>
        /\ PlateauAtFirstIndex(levels, high_peaks)
        /\ PlateauAtFirstIndex(Neg(levels), low_peaks)

\* a flat run yields at most one event, at the middle index of the run, and
\* yields none only if a reported event at least as large is closer than d
PlateauAtMidpoint(x, reported, d) ==
    \A lr \in Plateaus(x) :
        /\ {p \in Range(reported) : lr[1] <= p /\ p <= lr[2]} \subseteq {Mid(lr)}
        /\ Mid(lr) \notin Range(reported) =>
              \E c \in Range(reported) :
                 Abs(c - Mid(lr)) < d /\ At(x, c) >= At(x, Mid(lr))

\* C7 amended: a flat run that is higher than the samples on both sides
\* yields at most one HIGH event, never two; the event is located at the
\* middle index floor((first + last) / 2) of the run, which is the first
\* index only for a run of two samples; and the run yields no event only when
\* a reported HIGH at least as high lies closer than `distance` to that
\* middle index.  Mirrored for LOW events on a flat trough.
C7_PlateauMidpoint ==
    Detected =>
        /\ PlateauAtMidpoint(levels, high_peaks, distance)
        /\ PlateauAtMidpoint(Neg(levels), low_peaks, distance)

\* a flat crest of three or more samples was reported at its middle index
C7_Witness ==
    /\ response.endpoint = "find_extrema"
    /\ \E lr \in Plateaus(levels) :
          lr[2] >= lr[1] + 2 /\ Mid(lr) \in Range(high_peaks)

-----------------------------------------------------------------------------
(* Properties of the service (Spec).                                        *)

Served(endpoint) == response.endpoint = endpoint /\ response.status = 200

\* C2: a backward chart window (days < 0) is returned in strictly increasing
\* order, holds exactly the instants center - i * cadence for
\* i = 0..num_points-1, and so ends on the center instant.
C2_BackwardChronological ==
    (Served("chart") /\ response.is_past) =>
        LET tr == response.time_range
            n == response.num_points
            cadence == response.interval_minutes
        IN  /\ cadence > 0 /\ n > 0
            /\ Len(tr) = n
            /\ \A i \in 1..(n - 1) : tr[i] < tr[i + 1]
            /\ Range(tr) = {now_utc - i * cadence : i \in 0..(n - 1)}
            /\ tr[n] = now_utc

\* a backward window at the 30-minute cadence has been served
C2_Witness ==
    /\ Served("chart")
    /\ response.is_past
    /\ response.interval_minutes = 30
    /\ response.num_points = 11 * 48

\* C4: a forecast asked for days <= 0, that is for days*24 <= 0 points, is
\* answered with an INVALID_PARAMETER rejection (status 400 here) and never
\* with a successful response carrying a zero-length series.
C4_InvalidParameterRejected ==
    (response.endpoint = "forecast" /\ response.days <= 0) =>
        /\ response.status = 400
        /\ ~(response.status = 200 /\ Len(response.values) = 0)

\* the start-up values of the model
ModelAtStartup ==
    /\ tide_model = Tides(CONS_NAMES, 0)
    /\ amplitudes = CONS_H
    /\ phases = Radians(CONS_G)
    /\ A0 = A0_CM
    /\ INITIAL_TIME = 0

\* two consecutive requests to the same operation with the same instant and
\* the same days parameter (hence the same window and cadence)
SameRequest ==
    /\ response.endpoint # "none"
    /\ response'.endpoint = response.endpoint
    /\ response'.days = response.days
    /\ now_utc' = now_utc

SameSeries ==
    /\ response'.time_range = response.time_range
    /\ response'.values = response.values
    /\ response'.status = response.status

\* C9: the model keeps its start-up values through every request, and a
\* request repeated with the same instant, window and cadence returns the
\* same series.
C9_ModelReadOnly ==
    /\ []ModelAtStartup
    /\ [][SameRequest /\ response.status = 200 /\ response'.status = 200
            => SameSeries]_vars

\* a two-day forward chart has been served and the model is as at start-up
C9_Witness ==
    /\ Served("chart")
    /\ response.days = 2
    /\ Len(response.values) = 192
    /\ now_utc = 14042530
    /\ ModelAtStartup

\* mean level plus superposition at instant t, in 1e-6 cm
Unrounded(t) ==
    A0_CM * 1000000 + EtaAt(Tides(CONS_NAMES, 0), CONS_H, Radians(CONS_G), t)

\* every level of the response is the rounded sum for its instant
LevelsAreRoundedSums ==
    /\ Len(response.values) = Len(response.time_range)
    /\ \A k \in DOMAIN response.values :
          response.values[k] = Round2(Unrounded(response.time_range[k]))

\* C10 as stated: every level is the rounded sum for its instant, and
\* whenever the sum is below zero the reported level is negative.
C10_AsStated ==
    /\ LevelsAreRoundedSums
    /\ \A k \in DOMAIN response.values :
          Unrounded(response.time_range[k]) < 0 => response.values[k] < 0

\* C10: every level is the rounded sum for its instant, with no clamp; the
\* level is negative whenever the sum is more than 0.005 cm below zero, and
\* a sum between -0.005 cm and zero is reported as zero.
C10_NoClipping ==
    /\ LevelsAreRoundedSums
    /\ \A k \in DOMAIN response.values :
          /\ Unrounded(response.time_range[k]) < -5000 => response.values[k] < 0
          /\ (/\ Unrounded(response.time_range[k]) >= -5000
              /\ Unrounded(response.time_range[k]) < 0) => response.values[k] = 0

\* the single-instant calculation has returned a level below zero
C10_Witness ==
    /\ Served("current")
    /\ Unrounded(response.time_range[1]) < -5000
    /\ response.values[1] < 0

-----------------------------------------------------------------------------
(* The validator's arithmetic on bounded inputs: the statistics of          *)
(* validate_model applied to short series of predictions and observations.  *)

MaxSamples == 3
MaxError == 4

\* observed levels, cm
ObservedLevels == {300, 340, 370}

\* predictions that miss the observation by a whole number of cm
PredictionsFor(actual) ==
    {[i \in DOMAIN actual |-> (actual[i] + e[i]) * 100] :
        e \in [DOMAIN actual -> (-MaxError)..MaxError]}

InitStats ==
    /\ ModelInit
    /\ now_utc = START_UP
    /\ response = NoResponse
    /\ levels = <<>>
    /\ distance = PEAK_DISTANCE
    /\ high_peaks = <<>>
    /\ low_peaks = <<>>
    /\ \E n \in 1..MaxSamples :
          /\ actual_data \in [1..n -> ObservedLevels]
          /\ predicted \in PredictionsFor(actual_data)
    /\ statistics = <<>>

\* errors = predicted - np.array(actual_data), then the four statistics
ComputeStatistics ==
    /\ response.endpoint = "none"
    /\ \E errors \in {np_array(Errors(predicted, actual_data))} :
          /\ statistics' = Statistics(errors)
          /\ response' = [NoResponse EXCEPT !.endpoint = "statistics",
                                            !.status = 200,
                                            !.values = errors]
    /\ ModelUntouched
    /\ UNCHANGED <<now_utc, peak_vars, predicted, actual_data>>

NextStats == ComputeStatistics

SpecStats == InitStats /\ [][NextStats]_vars

SumOfSquares(e) == SumSeq([i \in DOMAIN e |-> e[i] * e[i]])

ExamplePredicted == <<302 * 100, 343 * 100, 374 * 100>>
ExampleObserved == <<300, 340, 370>>

IsExample == predicted = ExamplePredicted /\ actual_data = ExampleObserved

Near(x, y, tolerance) == Abs(x - y) <= tolerance

\* C5 as stated: on the example the mean error, the mean absolute error and
\* the root mean square error are all about 3.33 cm and the largest absolute
\* error is 4 cm.
C5_AsStated ==
    (Served("statistics") /\ IsExample) =>
        /\ Near(statistics.mean_error_cm, 333, 5)
        /\ Near(statistics.mae_cm, 333, 5)
        /\ Near(statistics.rmse_cm, 333, 5)
        /\ statistics.max_error_cm = 400

\* C5: the error is predicted - observed, signed; the four statistics are
\* the mean of the errors, the mean of their absolute values, the square
\* root of the mean of their squares and the largest absolute value, each
\* over the full input (here to 0.01 cm, rounded down); on the example they
\* are 3.00, 3.00, 3.10.. and 4.00 cm.
C5_ValidatorArithmetic ==
    Served("statistics") =>
        LET e == [i \in DOMAIN predicted |-> predicted[i] - 100 * actual_data[i]]
            n == Len(predicted)
            st == statistics
        IN  /\ response.values = e
            /\ n * st.mean_error_cm <= SumSeq(e)
            /\ SumSeq(e) < n * (st.mean_error_cm + 1)
            /\ n * st.mae_cm <= SumSeq(AbsSeq(e))
            /\ SumSeq(AbsSeq(e)) < n * (st.mae_cm + 1)
            /\ n * st.rmse_cm * st.rmse_cm <= SumOfSquares(e)
            /\ SumOfSquares(e) < n * (st.rmse_cm + 1) * (st.rmse_cm + 1)
            /\ \E i \in DOMAIN e : Abs(e[i]) = st.max_error_cm
            /\ \A i \in DOMAIN e : Abs(e[i]) <= st.max_error_cm
            /\ IsExample => st = [mean_error_cm |-> 300, mae_cm |-> 300,
                                  rmse_cm |-> 310, max_error_cm |-> 400]

\* the statistics of the example have been computed
C5_Witness ==
    /\ Served("statistics")
    /\ IsExample
    /\ statistics.rmse_cm = 310

-----------------------------------------------------------------------------
(* The daily extremes of a single-constituent wave: S2 alone, whose period  *)
(* is 12 hours, with an amplitude of 100 cm and every phase in steps of     *)
(* half a sample.                                                           *)

MaxPhase == 287

\* the angle the wave turns through in one 5-minute sample
SampleAngle == DAILY_FREQ * tidal_omega["S2"]

\* phases in hundredths of a degree, half a sample apart
WavePhases == {((SampleAngle \div 2) \div 10) * k : k \in 0..MaxPhase}

InitWave ==
    /\ tide_model = Tides(<<"S2">>, 0)
    /\ amplitudes = <<100 * 100>>
    /\ \E g \in WavePhases : phases = Radians(<<g>>)
    /\ A0 = A0_CM
    /\ INITIAL_TIME = 0
    /\ now_utc = START_UP
    /\ response = NoResponse
    /\ levels = <<>>
    /\ distance = PEAK_DISTANCE
    /\ high_peaks = <<>>
    /\ low_peaks = <<>>
    /\ predicted = <<>>
    /\ actual_data = <<>>
    /\ statistics = <<>>

NextWave == GetDailyExtremes

SpecWave == InitWave /\ [][NextWave]_vars

\* where the crest and the trough fall, as an angle from the first sample
CrestAngle == phases[1] % FullTurn
TroughAngle == (phases[1] + 2 * QuarterTurn) % FullTurn

\* the event at sample p is within one sample of an extremum at this angle
NearExtremum(p, angle) ==
    \E j \in 0..1 : Abs(SampleAngle * p - (angle + j * FullTurn)) <= SampleAngle

EventsNearExtrema ==
    /\ \A k \in DOMAIN high_peaks : NearExtremum(high_peaks[k], CrestAngle)
    /\ \A k \in DOMAIN low_peaks : NearExtremum(low_peaks[k], TroughAngle)

BothInside(angle) ==
    /\ 2 * angle > SampleAngle
    /\ 2 * angle < 2 * FullTurn - 3 * SampleAngle

-----------------------------------------------------------------------------
(* The forecast window and the local time of the service (Spec).            *)

\* the window the description of the service promises for a request of N days
advertised_days(n) ==
    IF n > ADVERTISED_FORECAST_MAX THEN ADVERTISED_FORECAST_MAX ELSE n

\* C11: a forecast asked for N >= 1 days is served as N*24 hourly samples
\* starting at the request instant, N being reduced only above the 365 days
\* the root endpoint advertises.
C11_ForecastWindowBound ==
    (Served("forecast") /\ response.days >= 1) =>
        /\ Len(response.time_range) = advertised_days(response.days) * HOURS_PER_DAY
        /\ Len(response.values) = Len(response.time_range)
        /\ \A k \in DOMAIN response.time_range :
              response.time_range[k] = now_utc + MinutesPerHour * (k - 1)

\* every local-time label of the response is its UTC instant plus 7 hours
LabelsAreGMT7 ==
    /\ response.endpoint \in {"current", "forecast", "chart"} =>
          \A k \in DOMAIN response.labels :
              response.labels[k] = response.time_range[k] + TIMEZONE_LABEL * MinutesPerHour
    /\ response.endpoint = "daily-extremes" =>
          /\ \A k \in DOMAIN response.high_tides :
                response.high_tides[k].time_local =
                    At(response.time_range, high_peaks[k]) + TIMEZONE_LABEL * MinutesPerHour
          /\ \A k \in DOMAIN response.low_tides :
                response.low_tides[k].time_local =
                    At(response.time_range, low_peaks[k]) + TIMEZONE_LABEL * MinutesPerHour

\* C12: local time is GMT+7: every local-time label is the UTC instant
\* shifted forward by 7 hours, and the validation day starts at
\* 2026-01-31 17:00 UTC.
C12_LocalTimeIsGMT7 ==
    /\ LabelsAreGMT7
    /\ response.endpoint = "validate" =>
          response.time_range[1] = TEST_DATE - TIMEZONE_LABEL * MinutesPerHour

-----------------------------------------------------------------------------
(* The window of the chart for every days parameter: the part of            *)
(* get_tide_chart that turns days into a cadence, a count and the instants. *)

MaxChartDays == 370

InitChart ==
    /\ ModelInit
    /\ now_utc = START_UP
    /\ \E days \in (-MaxChartDays)..MaxChartDays :
          response = [NoResponse EXCEPT !.days = days]
    /\ levels = <<>>
    /\ distance = PEAK_DISTANCE
    /\ high_peaks = <<>>
    /\ low_peaks = <<>>
    /\ predicted = <<>>
    /\ actual_data = <<>>
    /\ statistics = <<>>

\* abs_days, is_past, interval_minutes, points_per_day, num_points and
\* time_range of get_tide_chart for the days parameter of the request
PlanChart ==
    /\ response.endpoint = "none"
    /\ \E now \in ClockReadings :
        LET days == response.days
            abs_days == chart_abs_days(days)
            is_past == days < 0
            interval_minutes == interval_for(abs_days)
            points_per_day == points_per_day_for(interval_minutes)
            num_points == abs_days * points_per_day
        IN  \E time_range \in {IF is_past
                               THEN backward_range(now, interval_minutes, num_points)
                               ELSE forward_range(now, interval_minutes, num_points)} :
                /\ now_utc' = now
                /\ response' = [endpoint |-> "chart-window", status |-> 200,
                                days |-> days, time_range |-> time_range,
                                values |-> <<>>, labels |-> <<>>,
                                abs_days |-> abs_days, is_past |-> is_past,
                                interval_minutes |-> interval_minutes,
                                num_points |-> num_points]
    /\ ModelUntouched
    /\ UNCHANGED <<peak_vars, stat_vars>>

NextChart == PlanChart

SpecChart == InitChart /\ [][NextChart]_vars

MaxOf(a, b) == IF a >= b THEN a ELSE b
MinOf(a, b) == IF a <= b THEN a ELSE b

====
